---- MODULE Spec2Model ----
\* The dice game Pig of pig_extended.py: players, the computer strategy, the
\* turn loop of PigGame, the untimed game loop and the timed proxy.
EXTENDS Integers, Sequences, FiniteSets, TLC

VARIABLES
    pc,                    \* where control is: "new", "idle", "loop", "tloop", "roll", "decide", "done", "exited", "error"
    players,               \* PigGame.players: <<>> before construction, else two player records
    current_player_index,  \* PigGame.current_player_index (-1: the attribute does not exist)
    turn_total,            \* local turn_total of play_turn
    decision,              \* local decision of play_turn (NoDecision: not assigned in this call)
    mode,                  \* who called the running play_turn: "none", "direct", "game", "timed"
    now,                   \* the wall clock, time.time()
    start_time,            \* local start_time of TimedGameProxy.play_game
    time_limit,            \* TimedGameProxy.time_limit
    printed,               \* what play_turn printed last: "", "nothing", "holds", "thanks"
    timed,                 \* the argument timed of main()
    winner,                \* name printed by play_game as the winner ("": nothing printed)
    turn_start,            \* the players as they were at the last turn boundary
    rolls                  \* die rolls made in the running turn, where the roll step counts them

vars == <<pc, players, current_player_index, turn_total, decision, mode, now, start_time,
          time_limit, printed, timed, winner, turn_start, rolls>>

\* ---------------------------------------------------------------- bounds
MaxHumanTotal == 4      \* a human asks for another roll only below this turn total
MaxScore == 100         \* play_turn is called directly only while all scores are <= this
MaxClock == 2           \* the clock is followed for this many ticks
MaxTimeLimit == 1       \* time limits given to TimedGameProxy are 1..MaxTimeLimit
MaxDecideScore == 105   \* scores tried on decide alone are 0..MaxDecideScore
MaxDecideTotal == 30    \* turn totals tried on decide alone are 0..MaxDecideTotal

\* ---------------------------------------------------------------- constants
WinningScore == 100
Faces == 1..6

\* the arguments given to main(player1_type, player2_type, timed): the command
\* line's defaults, two computers with and without the clock, and player types
\* that are neither human nor computer
MainArgs ==
    { <<"human", "computer", FALSE>>, <<"computer", "computer", FALSE>>,
      <<"computer", "computer", TRUE>>, <<"robot", "computer", FALSE>>,
      <<"human", "robot", TRUE>>, <<"robot", "robot", FALSE>> }
TimeLimits == 1..MaxTimeLimit

\* ---------------------------------------------------------------- text
\* A line of input is a sequence of one-character strings.
Whitespace == {" ", "\t"}

LowerChar(c) ==
    CASE c = "H" -> "h" [] c = "O" -> "o" [] c = "L" -> "l" [] c = "D" -> "d"
      [] c = "R" -> "r" [] c = "Q" -> "q" [] c = "U" -> "u" [] c = "I" -> "i"
      [] c = "T" -> "t" [] c = "E" -> "e" [] c = "X" -> "x"
      [] OTHER -> c

\* .lower() left out
lower_same(s) == s

lower(s) == [i \in 1..Len(s) |-> LowerChar(s[i])]

RECURSIVE lstrip(_)
lstrip(s) == IF s # <<>> /\ Head(s) \in Whitespace THEN lstrip(Tail(s)) ELSE s

RECURSIVE rstrip(_)
rstrip(s) ==
    IF s # <<>> /\ s[Len(s)] \in Whitespace THEN rstrip(SubSeq(s, 1, Len(s) - 1)) ELSE s

strip(s) == rstrip(lstrip(s))

\* input(...).strip().lower()
ReadDecision(line) == lower(strip(line))

\* 'exit' missing from the list of quit tokens
QuitTokens_short == { <<"q">>, <<"q","u","i","t">> }

QuitTokens == { <<"q">>, <<"q","u","i","t">>, <<"e","x","i","t">> }
Hold == <<"h">>
RollAgain == <<"r">>

InputLines ==
    { <<"r">>, <<"r","o","l","l">>, <<"h">>, <<"h","o","l","d">>,
      <<"q">>, <<"q","u","i","t">>, <<"e","x","i","t">>,
      <<" ","H"," ">>, <<"H","O","L","D">>, <<"\t","R","o","l","l">>,
      <<"Q","u","i","t"," ">>, <<" ","E","X","I","T","\t">>, <<"R">>,
      <<>>, <<"x">>, <<"h"," ","h">> }

\* ---------------------------------------------------------------- players
Min(a, b) == IF a <= b THEN a ELSE b

Player(name, kind) == [name |-> name, kind |-> kind, score |-> 0]

\* the assignment of reset_score is lost
reset_score_keep(p) == p

reset_score(p) == [p EXCEPT !.score = 0]

\* 20 in place of 25
decide_twenty(p, total) ==
    IF total >= Min(20, 100 - p.score) THEN Hold ELSE RollAgain

\* the score is left out: hold at 25 whatever is needed to win
decide_ignores_score(p, total) ==
    IF total >= 25 THEN Hold ELSE RollAgain

\* > in place of >=
decide_strict(p, total) ==
    IF total > Min(25, 100 - p.score) THEN Hold ELSE RollAgain

decide(p, total) ==
    IF total >= Min(25, 100 - p.score) THEN Hold ELSE RollAgain

\* the sum is computed and not stored
add_score_lost(p, total) == p

\* -= in place of +=
add_score_minus(p, total) == [p EXCEPT !.score = @ - total]

\* current_player.score += turn_total
add_score(p, total) == [p EXCEPT !.score = @ + total]

ValueError == [raised |-> "ValueError"]
IsError(x) == "raised" \in DOMAIN x

\* the final else returns a human player instead of raising
create_player_lenient(player_type, name) ==
    IF player_type = "computer" THEN Player(name, "computer") ELSE Player(name, "human")

create_player(player_type, name) ==
    IF player_type = "human" THEN Player(name, "human")
    ELSE IF player_type = "computer" THEN Player(name, "computer")
    ELSE ValueError

\* ---------------------------------------------------------------- game
NoGame == players = <<>>

Current == players[current_player_index + 1]

\* > in place of >=
RECURSIVE AnyOver_above(_)
AnyOver_above(ps) ==
    IF ps = <<>> THEN FALSE
    ELSE IF Head(ps).score > WinningScore THEN TRUE ELSE AnyOver_above(Tail(ps))

RECURSIVE AnyOver(_)
AnyOver(ps) ==
    IF ps = <<>> THEN FALSE
    ELSE IF Head(ps).score >= WinningScore THEN TRUE ELSE AnyOver(Tail(ps))

\* only the first player is looked at
is_game_over_first == players # <<>> /\ players[1].score >= WinningScore

is_game_over == AnyOver(players)

\* >= in place of >: the last maximum wins
RECURSIVE MaxFrom_last(_, _)
MaxFrom_last(best, ps) ==
    IF ps = <<>> THEN best
    ELSE IF Head(ps).score >= best.score THEN MaxFrom_last(Head(ps), Tail(ps))
    ELSE MaxFrom_last(best, Tail(ps))

\* max(players, key=score): the first player no later player strictly exceeds
RECURSIVE MaxFrom(_, _)
MaxFrom(best, ps) ==
    IF ps = <<>> THEN best
    ELSE IF Head(ps).score > best.score THEN MaxFrom(Head(ps), Tail(ps))
    ELSE MaxFrom(best, Tail(ps))

MaxByScore(ps) == MaxFrom(Head(ps), Tail(ps))

\* the index is left where it is
switch_player_stay == current_player_index

switch_player == (current_player_index + 1) % Len(players)

ReturnTo == CASE mode = "game" -> "loop" [] mode = "timed" -> "tloop" [] OTHER -> "idle"
ModeAfter == IF mode = "direct" THEN "none" ELSE mode

NoDecision == <<"?">>

Init ==
    /\ pc = "new"
    /\ players = <<>>
    /\ current_player_index = -1
    /\ turn_total = 0
    /\ decision = NoDecision
    /\ mode = "none"
    /\ now = 0
    /\ start_time = 0
    /\ time_limit = 0
    /\ printed = ""
    /\ timed = FALSE
    /\ winner = ""
    /\ turn_start = <<>>
    /\ rolls = 0

\* main() up to its if: PigGame(player1_type, player2_type)
Construct(t1, t2, flag) ==
    /\ pc = "new"
    /\ timed' = flag
    /\ LET p1 == create_player(t1, "Player 1")
           p2 == create_player(t2, "Player 2")
       IN IF IsError(p1) \/ IsError(p2)
          THEN /\ pc' = "error"
               /\ UNCHANGED <<players, current_player_index, turn_start>>
          ELSE /\ pc' = "idle"
               /\ players' = <<p1, p2>>
               /\ current_player_index' = 0
               /\ turn_start' = <<p1, p2>>
    /\ UNCHANGED <<turn_total, decision, mode, now, start_time, time_limit, printed, winner, rolls>>

\* entry of play_turn
BeginTurn ==
    /\ pc' = "roll"
    /\ turn_total' = 0
    /\ decision' = NoDecision
    /\ printed' = ""
    /\ turn_start' = players
    /\ rolls' = 0
    /\ UNCHANGED <<players, current_player_index>>

\* the break of play_turn's loop followed by switch_player() and the return
EndTurn(ps, said) ==
    /\ players' = ps
    /\ turn_start' = ps
    /\ printed' = said
    /\ current_player_index' = switch_player
    /\ turn_total' = 0
    /\ pc' = ReturnTo
    /\ mode' = ModeAfter

\* a caller invokes game.play_turn() itself
CallPlayTurn ==
    /\ pc \in {"idle", "done"}
    /\ \A i \in 1..Len(players) : players[i].score <= MaxScore
    /\ mode' = "direct"
    /\ winner' = ""
    /\ BeginTurn
    /\ UNCHANGED <<now, start_time, time_limit, timed>>

\* the deadline of the timed game is looked at after each roll and ends the turn
Roll_stops_on_time(roll) ==
    /\ pc = "roll"
    /\ IF roll = 1 \/ (mode = "timed" /\ now - start_time > time_limit)
       THEN EndTurn(players, "nothing") /\ UNCHANGED decision
       ELSE /\ turn_total' = turn_total + roll
            /\ pc' = "decide"
            /\ UNCHANGED <<players, current_player_index, decision, mode, printed, turn_start>>
    /\ UNCHANGED <<now, start_time, time_limit, timed, winner, rolls>>

\* a roll of 1 banks the turn total instead of dropping it
Roll_banks_one(roll) ==
    /\ pc = "roll"
    /\ IF roll = 1
       THEN /\ EndTurn([players EXCEPT ![current_player_index + 1] =
                                         add_score(@, turn_total)], "nothing")
            /\ UNCHANGED decision
       ELSE /\ turn_total' = turn_total + roll
            /\ pc' = "decide"
            /\ UNCHANGED <<players, current_player_index, decision, mode, printed, turn_start>>
    /\ UNCHANGED <<now, start_time, time_limit, timed, winner, rolls>>

\* roll = self.die.roll() and the test roll == 1
RollBody(roll) ==
    /\ pc = "roll"
    /\ IF roll = 1
       THEN EndTurn(players, "nothing") /\ UNCHANGED decision
       ELSE /\ turn_total' = turn_total + roll
            /\ pc' = "decide"
            /\ UNCHANGED <<players, current_player_index, decision, mode, printed, turn_start>>
    /\ UNCHANGED <<now, start_time, time_limit, timed, winner>>

\* one pass of play_turn's loop up to the decision
Roll(roll) == RollBody(roll) /\ UNCHANGED rolls

\* the same step with the roll counted
CountedRoll(roll) == RollBody(roll) /\ rolls' = rolls + 1

\* the break after the bank is missing: the turn goes on
Act_no_break(d) ==
    /\ decision' = d
    /\ pc' = "roll"
    /\ players' = IF d = Hold
                  THEN [players EXCEPT ![current_player_index + 1] =
                                          add_score(@, turn_total)]
                  ELSE players
    /\ UNCHANGED <<current_player_index, turn_total, mode, printed, turn_start>>

\* the bank goes to the player who is not the current player
Act_other(d) ==
    /\ decision' = d
    /\ IF d = Hold
       THEN EndTurn([players EXCEPT ![switch_player + 1] =
                                        add_score(@, turn_total)], "holds")
       ELSE /\ pc' = "roll"
            /\ UNCHANGED <<players, current_player_index, turn_total, mode, printed,
                           turn_start>>

\* if decision == 'h': bank and break; otherwise loop
Act(d) ==
    /\ decision' = d
    /\ IF d = Hold
       THEN EndTurn([players EXCEPT ![current_player_index + 1] =
                                        add_score(@, turn_total)], "holds")
       ELSE /\ pc' = "roll"
            /\ UNCHANGED <<players, current_player_index, turn_total, mode, printed,
                           turn_start>>

ComputerDecide ==
    /\ pc = "decide"
    /\ Current.kind = "computer"
    /\ Act(decide(Current, turn_total))
    /\ UNCHANGED <<now, start_time, time_limit, timed, winner, rolls>>

HumanDecide(line) ==
    /\ pc = "decide"
    /\ Current.kind = "human"
    /\ LET d == ReadDecision(line)
       IN /\ turn_total < MaxHumanTotal \/ d = Hold \/ d \in QuitTokens
          /\ IF d \in QuitTokens
             THEN /\ pc' = "exited"
                  /\ decision' = d
                  /\ printed' = "thanks"
                  /\ UNCHANGED <<players, current_player_index, turn_total, mode,
                                 turn_start>>
             ELSE Act(d)
    /\ UNCHANGED <<now, start_time, time_limit, timed, winner, rolls>>

\* game.play_game()
CallPlayGame ==
    /\ pc = "idle"
    /\ ~timed
    /\ pc' = "loop"
    /\ mode' = "game"
    /\ winner' = ""
    /\ UNCHANGED <<rolls, players, current_player_index, turn_total, decision, now, start_time,
                   time_limit, printed, timed, turn_start>>

\* the lines after the loop of play_game: the winner is printed
Report ==
    /\ winner' = MaxByScore(players).name
    /\ pc' = "done"
    /\ mode' = "none"
    /\ UNCHANGED <<rolls, players, current_player_index, turn_total, decision, printed, turn_start>>

\* one test of "while not self.is_game_over()" in PigGame.play_game
LoopCheck ==
    /\ pc = "loop"
    /\ IF is_game_over THEN Report ELSE BeginTurn /\ UNCHANGED <<mode, winner>>
    /\ UNCHANGED <<now, start_time, time_limit, timed>>

\* TimedGameProxy(game, time_limit).play_game()
CallTimedPlayGame(limit) ==
    /\ pc = "idle"
    /\ timed
    /\ pc' = "tloop"
    /\ mode' = "timed"
    /\ time_limit' = limit
    /\ start_time' = now
    /\ winner' = ""
    /\ UNCHANGED <<rolls, players, current_player_index, turn_total, decision, now, printed,
                   timed, turn_start>>

elapsed_time == now - start_time

\* >= in place of >
TimeUp_inclusive == elapsed_time >= time_limit

\* if elapsed_time > self.time_limit
TimeUp == elapsed_time > time_limit

\* the while condition is left out: only the clock ends the timed game
TimedLoopCheck_only_clock ==
    /\ pc = "tloop"
    /\ IF TimeUp THEN Report ELSE BeginTurn /\ UNCHANGED <<mode, winner>>
    /\ UNCHANGED <<now, start_time, time_limit, timed>>

\* one pass of the while loop of TimedGameProxy.play_game up to play_turn()
TimedLoopCheck ==
    /\ pc = "tloop"
    /\ IF is_game_over THEN Report
       ELSE IF TimeUp THEN Report
       ELSE BeginTurn /\ UNCHANGED <<mode, winner>>
    /\ UNCHANGED <<now, start_time, time_limit, timed>>

\* the game object: the fields reset_game works on
Game == [players |-> players, current_player_index |-> current_player_index]

\* the index moves on to the next player instead of going back to 0
reset_game_next(g) ==
    [players |-> [i \in 1..Len(g.players) |-> reset_score(g.players[i])],
     current_player_index |-> (g.current_player_index + 1) % Len(g.players)]

\* the body of reset_game, on the fields of the game
reset_game(g) ==
    [players |-> [i \in 1..Len(g.players) |-> reset_score(g.players[i])],
     current_player_index |-> 0]

\* game.reset_game()
ResetGame ==
    /\ pc \in {"idle", "done"}
    /\ players' = reset_game(Game).players
    /\ turn_start' = players'
    /\ current_player_index' = reset_game(Game).current_player_index
    /\ pc' = "idle"
    /\ winner' = ""
    /\ UNCHANGED <<rolls, turn_total, decision, mode, now, start_time, time_limit, printed,
                   timed>>

\* time passes while a timed game runs
Tick ==
    /\ mode = "timed"
    /\ pc \in {"tloop", "roll", "decide"}
    /\ now < MaxClock
    /\ now' = now + 1
    /\ UNCHANGED <<rolls, pc, players, current_player_index, turn_total, decision, mode,
                   start_time, time_limit, printed, timed, winner, turn_start>>

\* the program: main() builds the game and plays it, timed or not
Next ==
    \/ \E a \in MainArgs : Construct(a[1], a[2], a[3])
    \/ CallPlayGame
    \/ LoopCheck
    \/ \E limit \in TimeLimits : CallTimedPlayGame(limit)
    \/ TimedLoopCheck
    \/ \E roll \in Faces : Roll(roll)
    \/ ComputerDecide
    \/ \E line \in InputLines : HumanDecide(line)
    \/ Tick

Spec == Init /\ [][Next]_vars

\* a caller that drives the game object itself: turns, whole games and resets
NextApi ==
    \/ \E a \in MainArgs : ~a[3] /\ Construct(a[1], a[2], a[3])
    \/ CallPlayTurn
    \/ CallPlayGame
    \/ LoopCheck
    \/ ResetGame
    \/ \E roll \in Faces : Roll(roll)
    \/ ComputerDecide
    \/ \E line \in InputLines : HumanDecide(line)

SpecApi == Init /\ [][NextApi]_vars

\* ---------------------------------------------------------------- decide alone
\* the scores a player can have: 0, and every sum of rolls of 2..6
DecideScores == {0} \cup 2..MaxDecideScore
DecideTotals == 0..MaxDecideTotal

InitDecide ==
    /\ pc = "call_decide"
    /\ \E s \in DecideScores :
          /\ players = << [Player("Player 1", "computer") EXCEPT !.score = s],
                          Player("Player 2", "computer") >>
          /\ turn_start = players
    /\ current_player_index = 0
    /\ turn_total \in DecideTotals
    /\ decision = NoDecision
    /\ mode = "none"
    /\ now = 0
    /\ start_time = 0
    /\ time_limit = 0
    /\ printed = ""
    /\ timed = FALSE
    /\ winner = ""
    /\ rolls = 0

\* a call of current_player.decide(turn_total) on its own
DecideCall ==
    /\ pc = "call_decide"
    /\ decision' = decide(Current, turn_total)
    /\ pc' = "decided"
    /\ UNCHANGED <<rolls, players, current_player_index, turn_total, mode, now, start_time,
                   time_limit, printed, timed, winner, turn_start>>

NextDecide == DecideCall

SpecDecide == InitDecide /\ [][NextDecide]_vars

\* ---------------------------------------------------------------- two computers
\* an untimed game between two computers, its rolls counted, under a fair die:
\* at each of these turn totals, a die rolled again and again shows a 6 again
\* and again
FairTotals == {0, 6, 12, 18, 24}

NextComputers ==
    \/ Construct("computer", "computer", FALSE)
    \/ CallPlayGame
    \/ LoopCheck
    \/ \E roll \in Faces : CountedRoll(roll)
    \/ ComputerDecide

FairDie == \A k \in FairTotals : SF_vars(CountedRoll(6) /\ turn_total = k)

SpecComputers ==
    /\ Init
    /\ [][NextComputers]_vars
    /\ WF_vars(NextComputers)
    /\ FairDie

\* ================================================================ claims
Score(i) == players[i].score
Seats == 1..Len(players)
Mover == current_player_index + 1

\* C1: decide(turn_total) returns 'h' exactly when turn_total >= min(25, 100 - score),
\* that is when turn_total reaches 25 or reaches 100 - score, and 'r' otherwise;
\* with score 80 and turn total 20 it returns 'h'.
DecideHoldsExactlyAtThreshold ==
    pc = "decided" =>
        /\ decision \in { <<"h">>, <<"r">> }
        /\ (decision = <<"h">>) <=> (turn_total >= 25 \/ turn_total >= 100 - Score(1))
        /\ (Score(1) = 80 /\ turn_total = 20) => decision = <<"h">>

DecideAtEightyTwenty ==
    pc = "decided" /\ Score(1) = 80 /\ turn_total = 20 /\ decision = <<"h">>

\* C2: over any sequence of play_turn, play_game and reset_game calls every score
\* is a natural number, and a score goes down in a step only when that step is
\* reset_game, which leaves it at 0.
ScoresGrowUnlessReset ==
    [][ \A i \in 1..Len(players') :
            /\ players'[i].score \in Nat
            /\ Len(players) = Len(players') =>
                  \/ players'[i].score >= players[i].score
                  \/ ResetGame /\ players'[i].score = 0 ]_vars

ResetAfterBank ==
    /\ pc = "idle"
    /\ printed = "holds"
    /\ current_player_index = 0
    /\ \A i \in Seats : Score(i) = 0

\* C3: is_game_over() is true exactly when some player's score is >= 100, and the
\* step of the game loop that calls it leaves the players and the index alone.
GameOverIffHundred ==
    /\ [](is_game_over <=> \E i \in Seats : Score(i) >= 100)
    /\ [][ (pc \in {"loop", "tloop"} /\ pc' # pc) =>
              (players' = players /\ current_player_index' = current_player_index) ]_vars

NinetyNineAgainstHundred ==
    pc = "done" /\ Score(1) = 99 /\ Score(2) = 100 /\ is_game_over

\* C4: a step that rolls a 1 leaves the players exactly as they were at the start
\* of the turn, asks for no decision, and passes the turn to the other player.
RollOfOneForfeits ==
    [][ Roll(1) =>
          /\ players' = turn_start
          /\ players' = players
          /\ decision' = decision
          /\ pc' \notin {"roll", "decide"}
          /\ turn_total' = 0
          /\ current_player_index' = 1 - current_player_index ]_vars

ForfeitAfterEarlierRolls ==
    /\ pc \in {"loop", "tloop"}
    /\ printed = "nothing"
    /\ decision = <<"r">>

\* C5: while untimed play_game runs a turn no score is >= 100, and it has
\* returned only with some score >= 100.
GameStopsAtHundred ==
    /\ (mode = "game" /\ pc \in {"roll", "decide"}) => \A i \in Seats : Score(i) < 100
    /\ (pc = "done" /\ ~timed) => \E i \in Seats : Score(i) >= 100

CrossedToHundredOne ==
    /\ pc = "done"
    /\ ~timed
    /\ players[1].kind = "human"
    /\ Score(1) = 101
    /\ Score(2) < 100
    /\ printed = "holds"
    /\ current_player_index = 1

\* C6: when play_game has ended, timed or not, the reported winner is the player
\* with the strictly higher score, and Player 1 when the scores are equal.
WinnerIsFirstMaximum ==
    pc = "done" =>
        /\ Score(1) > Score(2) => winner = "Player 1"
        /\ Score(2) > Score(1) => winner = "Player 2"
        /\ Score(1) = Score(2) => winner = "Player 1"

TieAtTimeout ==
    /\ pc = "done"
    /\ timed
    /\ Score(1) = Score(2)
    /\ Score(1) > 0
    /\ winner = "Player 1"

\* C7: at a between-turn check of the timed game with nobody at 100: if the
\* elapsed time exceeds the limit the game ends there with the scores as they
\* are and the winner taken from them, and nothing runs afterwards; if it does
\* not exceed the limit (equal included) another turn starts.
TimeoutStopsBetweenTurns ==
    [][ /\ (pc = "tloop" /\ pc' # "tloop" /\ \A i \in Seats : Score(i) < 100) =>
              IF now - start_time > time_limit
              THEN /\ pc' = "done"
                   /\ players' = players
                   /\ winner' = IF Score(2) > Score(1) THEN "Player 2" ELSE "Player 1"
              ELSE /\ pc' = "roll"
                   /\ players' = players
        /\ pc # "done" ]_vars

TimedOutBelowHundred ==
    /\ pc = "done"
    /\ timed
    /\ now - start_time > time_limit
    /\ \A i \in Seats : Score(i) < 100
    /\ \E i \in Seats : Score(i) > 0

\* C8: a quit token (q, quit, exit, in any case, with blanks around it) at a
\* human decision ends the program at once: the players are as at the start of the
\* turn, nothing of the turn total is banked, and no step follows.
QuitLines ==
    { <<"q">>, <<"q","u","i","t">>, <<"e","x","i","t">>,
      <<"Q","u","i","t"," ">>, <<" ","E","X","I","T","\t">> }

QuitDiscardsTurn ==
    [][ /\ \A line \in QuitLines :
              HumanDecide(line) =>
                  (pc' = "exited" /\ players' = players /\ players' = turn_start)
        /\ (pc' = "exited") =>
              /\ decision' \in { <<"q">>, <<"q","u","i","t">>, <<"e","x","i","t">> }
              /\ players' = turn_start
        /\ pc # "exited" ]_vars

QuitMidTurn ==
    /\ pc = "exited"
    /\ decision = <<"q","u","i","t">>
    /\ turn_total > 0
    /\ Score(1) > 0

\* C9 as stated: r and roll continue, h and hold bank, q, quit and exit end the
\* program, all after trimming and ignoring case.
RollLines == { <<"r">>, <<"R">>, <<"r","o","l","l">>, <<"\t","R","o","l","l">> }
LetterHoldLines == { <<"h">>, <<" ","H"," ">> }
WordHoldLines == { <<"h","o","l","d">>, <<"H","O","L","D">> }

Continues == pc' = "roll" /\ players' = players /\ turn_total' = turn_total
Banks ==
    /\ pc' \notin {"roll", "decide", "exited"}
    /\ printed' = "holds"
    /\ players' = [players EXCEPT ![Mover].score = @ + turn_total]
Exits == pc' = "exited" /\ players' = players

HoldWordBanks ==
    [][ \A line \in InputLines :
          HumanDecide(line) =>
              /\ line \in RollLines => Continues
              /\ line \in LetterHoldLines \cup WordHoldLines => Banks
              /\ line \in QuitLines => Exits ]_vars

\* C9 amended: only h banks; hold, like r and roll, continues rolling.
OnlyLetterHBanks ==
    [][ \A line \in InputLines :
          HumanDecide(line) =>
              /\ line \in RollLines \cup WordHoldLines => Continues
              /\ line \in LetterHoldLines => Banks
              /\ line \in QuitLines => Exits ]_vars

HoldWordRolledOn ==
    pc = "roll" /\ decision = <<"h","o","l","d">> /\ turn_total > 0

\* C10: PigGame with a player type that is neither human nor computer raises
\* and leaves no players and no index behind, and nothing runs afterwards; with
\* two valid types it builds the two players.
ValidTypes == {"human", "computer"}

BadTypeLeavesNoGame ==
    [][ /\ \A a \in MainArgs :
              Construct(a[1], a[2], a[3]) =>
                  IF a[1] \in ValidTypes /\ a[2] \in ValidTypes
                  THEN /\ pc' = "idle"
                       /\ players' = << [name |-> "Player 1", kind |-> a[1], score |-> 0],
                                        [name |-> "Player 2", kind |-> a[2], score |-> 0] >>
                       /\ current_player_index' = 0
                  ELSE /\ pc' = "error"
                       /\ players' = <<>>
                       /\ current_player_index' = -1
        /\ pc # "error" ]_vars

SecondTypeBad ==
    pc = "error" /\ timed /\ players = <<>> /\ current_player_index = -1

\* C11: a reset_game step leaves both scores at 0 and the index at 0, and the
\* players list holds the same two players: same names, same kinds, same order.
ResetKeepsPlayers ==
    [][ ResetGame =>
          /\ Len(players') = Len(players)
          /\ Len(players') = 2
          /\ current_player_index' = 0
          /\ \A i \in 1..Len(players') :
                /\ players'[i].score = 0
                /\ players'[i].name = players[i].name
                /\ players'[i].kind = players[i].kind ]_vars

ResetHumanAndComputer ==
    /\ pc = "idle"
    /\ printed = "holds"
    /\ current_player_index = 0
    /\ players = << [name |-> "Player 1", kind |-> "human", score |-> 0],
                    [name |-> "Player 2", kind |-> "computer", score |-> 0] >>

\* C12: reset_game is idempotent: the game a reset_game step leaves is the game
\* a second reset_game would leave.
ResetIsIdempotent ==
    [][ ResetGame => reset_game(Game)' = Game' ]_vars

ResetAfterHoldDecision ==
    /\ pc = "idle"
    /\ decision = <<"h">>
    /\ Game = reset_game(Game)
    /\ \A i \in Seats : Score(i) = 0

\* C13: the turn total starts at 0 and grows by each roll of 2..6; the step in
\* which the current player holds adds exactly that turn total to a score that
\* had not changed since the turn began, changes nothing else of the players,
\* and ends the turn: no roll follows in it.
InTurn == pc \in {"roll", "decide"}
HoldStep == pc = "decide" /\ decision' = <<"h">> /\ pc' # "exited"

BankAddsTurnTotalOnce ==
    [][ /\ (~InTurn /\ pc' = "roll") => turn_total' = 0
        /\ (pc = "roll" /\ pc' = "decide") => (turn_total' - turn_total) \in 2..6
        /\ (pc = "decide" /\ pc' = "roll") => turn_total' = turn_total
        /\ HoldStep =>
              /\ turn_total >= 2
              /\ players = turn_start
              /\ players' = [players EXCEPT ![Mover].score = @ + turn_total]
              /\ printed' = "holds"
              /\ ~InTurn' ]_vars

ComputerBankedTwentySeven ==
    /\ pc = "loop"
    /\ printed = "holds"
    /\ players[1].kind = "computer"
    /\ Score(1) = 27
    /\ Score(2) = 0
    /\ current_player_index = 1

\* C14: a step of play_turn never changes the player who is not the current
\* player, and changes the current player only when that player holds; rolls
\* and decisions to roll again leave both players as they are.
Other == 2 - current_player_index

OnlyTheHolderChanges ==
    [][ InTurn =>
          /\ players'[Other] = players[Other]
          /\ players' # players => HoldStep
          /\ (pc = "roll" \/ pc' = "roll") => players' = players ]_vars

SecondPlayerBankedFirstKept ==
    /\ pc = "tloop"
    /\ printed = "holds"
    /\ current_player_index = 0
    /\ Score(1) = 25
    /\ Score(2) = 30

\* C15: once the game is built the index is 0 or 1; it starts at 0, every turn
\* that reaches its end (a roll of 1 or a hold) flips it, and no other step of
\* the program changes it, so completed turns alternate starting with Player 1.
TurnsAlternate ==
    /\ [](pc \notin {"new", "error"} => current_player_index \in {0, 1})
    /\ [][ /\ pc = "new" /\ pc' = "idle" => current_player_index' = 0
           /\ (InTurn /\ ~InTurn' /\ pc' # "exited") =>
                 current_player_index' = 1 - current_player_index
           /\ (pc # "new" /\ ~(InTurn /\ ~InTurn' /\ pc' # "exited")) =>
                 current_player_index' = current_player_index ]_vars

BackToPlayerOne ==
    /\ pc = "loop"
    /\ current_player_index = 0
    /\ Score(2) > 0
    /\ printed = "nothing"

\* C16: in the timed game a turn is never cut short by the clock: whatever the
\* elapsed time, a roll of 2..6 leads to the decision, a hold adds the turn total
\* to the score, a turn leaves only to the between-turn check, and the game is
\* reported only from that check.
DeadlineOnlyBetweenTurns ==
    [][ mode = "timed" =>
          /\ InTurn => pc' \in {"roll", "decide", "tloop"}
          /\ \A r \in 2..6 :
                Roll(r) => (pc' = "decide" /\ turn_total' = turn_total + r)
          /\ HoldStep => players' = [players EXCEPT ![Mover].score = @ + turn_total]
          /\ pc' = "done" => pc = "tloop" ]_vars

HoldPendingPastDeadline ==
    /\ pc = "decide"
    /\ mode = "timed"
    /\ now - start_time > time_limit
    /\ turn_total >= 25

\* C17: a computer's turn that ends by a hold banks a turn total of at least
\* min(25, 100 - s), s being its score at the start of the turn; a computer's
\* turn that ends with a smaller turn total ends by a roll of 1, nothing banked.
StartScore == turn_start[Mover].score
Target == IF 100 - StartScore < 25 THEN 100 - StartScore ELSE 25

ComputerBanksAtLeastTarget ==
    [][ (InTurn /\ Current.kind = "computer") =>
          /\ HoldStep => turn_total >= Target
          /\ (~InTurn' /\ turn_total < Target) =>
                (printed' = "nothing" /\ players' = players) ]_vars

ComputerWonByHold ==
    /\ pc = "done"
    /\ players[1].kind = "computer"
    /\ Score(1) = 104
    /\ Score(2) = 90
    /\ decision = <<"h">>
    /\ printed = "holds"

\* C18: in a game run by play_game, timed or not, at most one player is at 100
\* or more in every state, and when the game is done a player at 100 or more is
\* the reported winner, has just held, and the index has moved on from that
\* player.
AtMostOneReachesHundred ==
    /\ Cardinality({i \in Seats : Score(i) >= 100}) <= 1
    /\ pc = "done" =>
          \A i \in Seats :
              Score(i) >= 100 =>
                  /\ winner = players[i].name
                  /\ printed = "holds"
                  /\ current_player_index = 2 - i

SecondPlayerWinsTimedGame ==
    /\ pc = "done"
    /\ timed
    /\ Score(2) >= 100
    /\ Score(1) < 100
    /\ winner = "Player 2"

\* C19: a computer rolls only below min(25, 100 - score), so in its turn the turn
\* total is at most that plus 5 and at most 30, and in a game run by play_game a
\* computer's score is at most 105.
ComputerStopsAtTarget ==
    /\ (InTurn /\ Current.kind = "computer") =>
          /\ pc = "roll" => turn_total < Target
          /\ turn_total <= Target + 5
          /\ turn_total <= 30
    /\ \A i \in Seats : players[i].kind = "computer" => Score(i) <= 105

ComputerAtHundredFive ==
    /\ pc = "done"
    /\ players[1].kind = "computer"
    /\ Score(1) = 105
    /\ Score(2) = 75

\* C20: an untimed game between two computers under a fair die ends with some
\* score at 100 or more; before it has ended some step is always possible; and
\* no turn takes more than 13 rolls.
ComputersFinish ==
    /\ <>(pc = "done" /\ \E i \in Seats : Score(i) >= 100)
    /\ [](pc # "done" => ENABLED NextComputers)
    /\ [](rolls <= 13)

WonInThirteenRolls ==
    /\ pc = "done"
    /\ rolls = 13
    /\ \E i \in Seats : Score(i) >= 100
====
